---- MODULE Spec2Model ----
(***************************************************************************)
(* The interview session state machine of backend/main.py: the in-memory   *)
(* table interview_sessions, the Interview rows reached through the        *)
(* SQLAlchemy session db, and the request handlers that act on them.       *)
(*                                                                         *)
(* Scheduling.  Handlers declared "async def" run on the server's event    *)
(* loop.  analyze_audio, end_interview, save_interview_to_user_history,    *)
(* get_question_feedback, analyze_speech, start_interview and              *)
(* delete_user_interview                                                   *)
(* contain no await: the Groq client and the db session are synchronous,   *)
(* so each of them runs from its first line to its return without any      *)
(* other coroutine running.  Handlers declared with a plain "def"          *)
(* (status, time, analytics, export, save_to_history) are run in the       *)
(* thread pool, so they                                                    *)
(* can read the table between any two statements of a handler that is on   *)
(* the loop.  The variable loop holds the handler that is on the loop and  *)
(* is part-way through; analyze_audio is cut at its two external calls so  *)
(* that the thread-pool readers can see what it has written so far.        *)
(***************************************************************************)
EXTENDS Integers, Sequences, FiniteSets, TLC

\* Bounds of the model.
MaxWork == 4          \* sessions started, recordings accepted and rows deleted, weighed together
MaxScored == 10       \* scored turns of the one session of SpecPolicy
MaxSaved == 2         \* entries of interview_history

None == "None"
Users == {"alice", "bob"}
\* Who starts sessions: a guest or alice.  bob comes to own rows by saving
\* guest sessions; the identity kept in memory is never read after start.
Starters == {None, "alice"}
\* The identifiers uuid4 hands out, in the order it hands them out.
SessionSeq == <<"s1", "s2">>
SessionIds == {SessionSeq[i] : i \in 1..Len(SessionSeq)}

\* Text is a sequence of tokens.  A marker token stands for a substring
\* "[SCORE: n/10]" that the pattern \[SCORE:\s*(\d+)/10\] matches; a word
\* token for text it does not match; a broken token for a bracket that looks
\* like a marker and that the pattern does not match (such as "[SCORE: high]").
Word(n) == [kind |-> "word", n |-> n]
Marker(n) == [kind |-> "marker", n |-> n]
Broken == [kind |-> "broken", n |-> 0]

Opening == <<[kind |-> "opening", n |-> 0]>>
\* What the transcription of the n-th accepted recording can be: the candidate
\* says something new each time.
Utterances(n) == {<<Word(n)>>}
Replies == {<<Word(0)>>, <<Word(0), Marker(9)>>, <<Word(0), Marker(3)>>}
\* The wider choice of replies of SpecTurn: also a malformed marker, two
\* markers in one reply, a marker in front of the text, and markers whose
\* digits (\d+ takes any) are 0 and 11.
TurnReplies == Replies \cup {<<Word(0), Broken>>,
                             <<Word(0), Marker(9), Marker(3)>>,
                             <<Marker(3), Word(0), Broken>>,
                             <<Word(0), Marker(0)>>,
                             <<Word(0), Marker(11)>>}
\* The scores the replies of SpecPolicy carry.
PolicyScores == {1, 10}

\* What a start request carries besides the identity.
Configs == {[resume_text |-> FALSE, job_description |-> FALSE],
            [resume_text |-> TRUE, job_description |-> FALSE]}

VARIABLES
    interview_sessions,   \* the in-memory table: session id -> session dict
    issued,               \* how many identifiers uuid4 has produced
    interviews,           \* the Interview table: row id -> row
    interview_seq,        \* the last primary key the table handed out
    loop,                 \* the handler that is part-way through on the event loop
    response,             \* the last response sent to a client
    turns,                \* analyze requests accepted so far
    deletes,              \* rows deleted so far
    interview_history     \* the in-memory list of saved interviews

vars == <<interview_sessions, issued, interviews, interview_seq, loop, response, turns, deletes,
          interview_history>>

Idle == [op |-> "idle"]

\* The work done so far, which MaxWork caps: one unit for the first session,
\* for each recording accepted and for each row deleted, and three units for
\* every further session, so that runs with several sessions stay short.
StartWork(n) == IF n = 0 THEN 0 ELSE 3 * n - 2
Work == StartWork(issued) + turns + deletes
NoBody == [none |-> TRUE]

Put(f, k, v) == [x \in DOMAIN f \cup {k} |-> IF x = k THEN v ELSE f[x]]
Drop(f, k) == [x \in DOMAIN f \ {k} |-> f[x]]

RECURSIVE Sum(_)
Sum(s) == IF s = <<>> THEN 0 ELSE Head(s) + Sum(Tail(s))

RECURSIVE SeqMin(_)
SeqMin(s) == IF Len(s) = 1 THEN s[1]
             ELSE LET m == SeqMin(Tail(s)) IN IF s[1] < m THEN s[1] ELSE m

RECURSIVE SeqMax(_)
SeqMax(s) == IF Len(s) = 1 THEN s[1]
             ELSE LET m == SeqMax(Tail(s)) IN IF s[1] > m THEN s[1] ELSE m

SetMin(S) == CHOOSE x \in S : \A y \in S : x <= y

Reply(sid, user, op, code, body) ==
    [op |-> op, sid |-> sid, user |-> user, code |-> code, body |-> body]

Init ==
    /\ interview_sessions = [s \in {} |-> NoBody]
    /\ issued = 0
    /\ interviews = [i \in {} |-> NoBody]
    /\ interview_seq = 0
    /\ loop = Idle
    /\ response = Reply(None, None, "none", 0, NoBody)
    /\ turns = 0
    /\ deletes = 0
    /\ interview_history = <<>>

\* db.query(Interview).filter(Interview.session_id == session_id), and .first()
RowsIn(table, sid) == {i \in DOMAIN table : table[i].session_id = sid}
RowsOfSession(sid) == RowsIn(interviews, sid)
FirstRowOfSession(sid) == SetMin(RowsOfSession(sid))

\* The Interview row that start_interview adds.
StartRow(sid, user, config) ==
    [session_id |-> sid,
     user_id |-> user,
     question_count |-> 1,
     transcript |-> <<[role |-> "assistant", content |-> Opening]>>,
     scores |-> <<>>,
     has_resume |-> config.resume_text,
     has_job_description |-> config.job_description,
     average_score |-> <<>>,
     summary |-> None,
     status |-> "active"]

\* The session dict that start_interview stores, after the opening is appended.
StartSession(user, config) ==
    [history |-> <<[role |-> "assistant", content |-> Opening]>>,
     scores |-> <<>>,
     question_count |-> 1,
     current_difficulty_adjustment |-> 0,
     has_resume |-> config.resume_text,
     has_job_description |-> config.job_description,
     user_id |-> user]

\* start_interview as the document-store variant has it: a row only for an identity.
start_interview_OwnedOnly(user, config) ==
    /\ loop = Idle
    /\ issued < Len(SessionSeq)
    /\ StartWork(issued + 1) + turns + deletes <= MaxWork
    /\ LET sid == SessionSeq[issued + 1] IN
        /\ issued' = issued + 1
        /\ interview_sessions' = Put(interview_sessions, sid, StartSession(user, config))
        /\ IF user # None
           THEN /\ interview_seq' = interview_seq + 1
                /\ interviews' = Put(interviews, interview_seq + 1, StartRow(sid, user, config))
           ELSE UNCHANGED <<interviews, interview_seq>>
        /\ response' = Reply(sid, user, "start", 200,
                             [opening_message |-> Opening,
                              has_resume |-> config.resume_text,
                              has_job_description |-> config.job_description])
    /\ UNCHANGED <<loop, turns, deletes, interview_history>>

\* start_interview with an identifier generator that repeats itself.
start_interview_Reuse(user, config) ==
    /\ loop = Idle
    /\ issued < Len(SessionSeq)
    /\ StartWork(issued + 1) + turns + deletes <= MaxWork
    /\ LET sid == SessionSeq[1] IN
        /\ issued' = issued + 1
        /\ interview_sessions' = Put(interview_sessions, sid, StartSession(user, config))
        /\ interview_seq' = interview_seq + 1
        /\ interviews' = Put(interviews, interview_seq + 1, StartRow(sid, user, config))
        /\ response' = Reply(sid, user, "start", 200,
                             [opening_message |-> Opening,
                              has_resume |-> config.resume_text,
                              has_job_description |-> config.job_description])
    /\ UNCHANGED <<loop, turns, deletes, interview_history>>

\* POST /interview/start
start_interview(user, config) ==
    /\ loop = Idle
    /\ issued < Len(SessionSeq)
    /\ StartWork(issued + 1) + turns + deletes <= MaxWork
    /\ LET sid == SessionSeq[issued + 1] IN
        /\ issued' = issued + 1
        /\ interview_sessions' = Put(interview_sessions, sid, StartSession(user, config))
        /\ interview_seq' = interview_seq + 1
        /\ interviews' = Put(interviews, interview_seq + 1, StartRow(sid, user, config))
        /\ response' = Reply(sid, user, "start", 200,
                             [opening_message |-> Opening,
                              has_resume |-> config.resume_text,
                              has_job_description |-> config.job_description])
    /\ UNCHANGED <<loop, turns, deletes, interview_history>>

\* score_match = re.search(r'\[SCORE:\s*(\d+)/10\]', ai_response): the positions
\* of the substrings the pattern matches.
ScoreMatches(text) == {i \in 1..Len(text) : text[i].kind = "marker"}

\* ParseScore with the score appended twice.
ParseScore_Twice(text) ==
    IF ScoreMatches(text) = {} THEN <<>>
    ELSE <<text[SetMin(ScoreMatches(text))].n, text[SetMin(ScoreMatches(text))].n>>

\* ParseScore with the append of line 720 forgotten.
ParseScore_Never(text) == <<>>

\* score: the optional integer of the first match, <<>> when nothing matches.
ParseScore(text) ==
    IF ScoreMatches(text) = {} THEN <<>> ELSE <<text[SetMin(ScoreMatches(text))].n>>

\* re.sub(r'\s*\[SCORE:\s*\d+/10\]', '', text).strip(): every match removed.
IsNotMarker(tok) == tok.kind # "marker"
StripScore(text) == SelectSeq(text, IsNotMarker)

\* DisplayResponse with the re.sub of line 722 forgotten.
DisplayResponse_Verbatim(ai_response) == ai_response

\* display_response, lines 718-724: stripped when a score matched, else verbatim.
DisplayResponse(ai_response) ==
    IF ScoreMatches(ai_response) # {} THEN StripScore(ai_response) ELSE ai_response

\* Round1 that cuts the quotient off instead of rounding it.
Round1_Truncate(scores) == (10 * Sum(scores)) \div Len(scores)

\* round(sum(scores) / len(scores), 1) in tenths, <<>> for None.  Python rounds
\* the double to the nearest tenth, ties to even; for fewer than 20 scores the
\* only exact ties are quotients ending in .25 and .75, which are doubles.
Round1(scores) ==
    LET n == 10 * Sum(scores)
        q == n \div Len(scores)
        r == n % Len(scores)
    IN IF 2 * r < Len(scores) THEN q
       ELSE IF 2 * r > Len(scores) THEN q + 1
       ELSE IF q % 2 = 0 THEN q ELSE q + 1

\* "if avg_score:" is false for None and for an average of 0.0.
AvgTruthy(scores) == scores # <<>> /\ Sum(scores) # 0

\* AdjustDifficulty with the test "< 2" of line 731 forgotten.
AdjustDifficulty_NoCeiling(adj, scores) ==
    IF ~AvgTruthy(scores) THEN adj
    ELSE IF Sum(scores) >= 8 * Len(scores) THEN adj + 1
    ELSE IF Sum(scores) <= 4 * Len(scores) /\ adj > -2 THEN adj - 1
    ELSE adj

\* AdjustDifficulty with the test "> -2" of line 733 forgotten.
AdjustDifficulty_NoFloor(adj, scores) ==
    IF ~AvgTruthy(scores) THEN adj
    ELSE IF Sum(scores) >= 8 * Len(scores) /\ adj < 2 THEN adj + 1
    ELSE IF Sum(scores) <= 4 * Len(scores) THEN adj - 1
    ELSE adj

\* The adaptive adjustment of lines 729-734, given the scores after the append.
AdjustDifficulty(adj, scores) ==
    IF ~AvgTruthy(scores) THEN adj
    ELSE IF Sum(scores) >= 8 * Len(scores) /\ adj < 2 THEN adj + 1
    ELSE IF Sum(scores) <= 4 * Len(scores) /\ adj > -2 THEN adj - 1
    ELSE adj

DifficultyTrend(adj) == IF adj > 0 THEN "harder" ELSE IF adj < 0 THEN "easier" ELSE "stable"

\* POST /interview/{session_id}/analyze, lines 672-697: the lookup, the
\* transcription and the append of the user's message.  before is the session
\* as the request found it; the handler never reads it.
analyze_audio_begin(sid, transcribed, user_text) ==
    /\ loop = Idle
    /\ IF sid \notin DOMAIN interview_sessions
       THEN /\ response' = Reply(sid, None, "analyze", 404, NoBody)
            /\ UNCHANGED <<interview_sessions, loop, turns>>
       ELSE IF ~transcribed
       THEN /\ response' = Reply(sid, None, "analyze", 500, NoBody)
            /\ UNCHANGED <<interview_sessions, loop, turns>>
       ELSE /\ Work < MaxWork
            /\ interview_sessions' =
                [interview_sessions EXCEPT ![sid].history =
                    Append(@, [role |-> "user", content |-> user_text])]
            /\ loop' = [op |-> "analyze", pc |-> "chat", sid |-> sid,
                        user_text |-> user_text, before |-> interview_sessions[sid]]
            /\ turns' = turns + 1
            /\ UNCHANGED response
    /\ UNCHANGED <<issued, interviews, interview_seq, deletes, interview_history>>

\* Lines 699-734: the chat completion over the whole history, the score and
\* the adjustment.  A failed call leaves through the except clause of line 755.
analyze_audio_chat(completed, ai_response) ==
    /\ loop.op = "analyze"
    /\ loop.pc = "chat"
    /\ IF ~completed
       THEN /\ response' = Reply(loop.sid, None, "analyze", 500, NoBody)
            /\ loop' = Idle
            /\ UNCHANGED interview_sessions
       ELSE LET session == interview_sessions[loop.sid]
                score == ParseScore(ai_response)
                scores == session.scores \o score
            IN /\ interview_sessions' =
                    [interview_sessions EXCEPT
                        ![loop.sid].scores = scores,
                        ![loop.sid].current_difficulty_adjustment =
                            AdjustDifficulty(@, scores)]
               /\ loop' = [op |-> "analyze", pc |-> "append", sid |-> loop.sid,
                           user_text |-> loop.user_text, before |-> loop.before,
                           messages |-> session.history,
                           ai_response |-> ai_response, score |-> score]
               /\ UNCHANGED response
    /\ UNCHANGED <<issued, interviews, interview_seq, turns, deletes, interview_history>>

\* analyze_audio_finish with the reply put in front of the history.
analyze_audio_finish_Prepend ==
    /\ loop.op = "analyze"
    /\ loop.pc = "append"
    /\ LET sid == loop.sid
           session == interview_sessions[sid]
       IN /\ interview_sessions' =
                [interview_sessions EXCEPT
                    ![sid].history =
                        <<[role |-> "assistant", content |-> loop.ai_response]>> \o @,
                    ![sid].question_count = @ + 1]
          /\ response' = Reply(sid, None, "analyze", 200,
                [user_text |-> loop.user_text,
                 ai_response |-> DisplayResponse(loop.ai_response),
                 question_number |-> session.question_count + 1,
                 history_length |-> Len(session.history) + 1,
                 score |-> loop.score,
                 average_score |-> IF AvgTruthy(session.scores)
                                   THEN <<Round1(session.scores)>> ELSE <<>>,
                 total_scores |-> Len(session.scores),
                 difficulty_trend |-> DifficultyTrend(session.current_difficulty_adjustment)])
    /\ loop' = Idle
    /\ UNCHANGED <<issued, interviews, interview_seq, turns, deletes, interview_history>>

\* analyze_audio_finish with the session's owner cleared on the way.
analyze_audio_finish_Disown ==
    /\ loop.op = "analyze"
    /\ loop.pc = "append"
    /\ LET sid == loop.sid
           session == interview_sessions[sid]
       IN /\ interview_sessions' =
                [interview_sessions EXCEPT
                    ![sid].history =
                        Append(@, [role |-> "assistant", content |-> loop.ai_response]),
                    ![sid].question_count = @ + 1,
                    ![sid].user_id = None]
          /\ response' = Reply(sid, None, "analyze", 200,
                [user_text |-> loop.user_text,
                 ai_response |-> DisplayResponse(loop.ai_response),
                 question_number |-> session.question_count + 1,
                 history_length |-> Len(session.history) + 1,
                 score |-> loop.score,
                 average_score |-> IF AvgTruthy(session.scores)
                                   THEN <<Round1(session.scores)>> ELSE <<>>,
                 total_scores |-> Len(session.scores),
                 difficulty_trend |-> DifficultyTrend(session.current_difficulty_adjustment)])
    /\ loop' = Idle
    /\ UNCHANGED <<issued, interviews, interview_seq, turns, deletes, interview_history>>

\* Lines 736-753: the reply is appended and the response built.
analyze_audio_finish ==
    /\ loop.op = "analyze"
    /\ loop.pc = "append"
    /\ LET sid == loop.sid
           session == interview_sessions[sid]
       IN /\ interview_sessions' =
                [interview_sessions EXCEPT
                    ![sid].history =
                        Append(@, [role |-> "assistant", content |-> loop.ai_response]),
                    ![sid].question_count = @ + 1]
          /\ response' = Reply(sid, None, "analyze", 200,
                [user_text |-> loop.user_text,
                 ai_response |-> DisplayResponse(loop.ai_response),
                 question_number |-> session.question_count + 1,
                 history_length |-> Len(session.history) + 1,
                 score |-> loop.score,
                 average_score |-> IF AvgTruthy(session.scores)
                                   THEN <<Round1(session.scores)>> ELSE <<>>,
                 total_scores |-> Len(session.scores),
                 difficulty_trend |-> DifficultyTrend(session.current_difficulty_adjustment)])
    /\ loop' = Idle
    /\ UNCHANGED <<issued, interviews, interview_seq, turns, deletes, interview_history>>

\* A whole turn of lines 672-753 whose transcription and completion succeed and
\* whose reply carries the marker [SCORE: n/10], run from the lookup to the
\* return as the event loop runs it.
analyze_audio_scored(sid, n) ==
    /\ loop = Idle
    /\ sid \in DOMAIN interview_sessions
    /\ Len(interview_sessions[sid].scores) < MaxScored
    /\ LET session == interview_sessions[sid]
           user_text == <<Word(session.question_count)>>
           ai_response == <<Word(0), Marker(n)>>
           score == ParseScore(ai_response)
           scores == session.scores \o score
           adj == AdjustDifficulty(session.current_difficulty_adjustment, scores)
       IN /\ interview_sessions' =
                [interview_sessions EXCEPT
                    ![sid].history = @ \o <<[role |-> "user", content |-> user_text],
                                            [role |-> "assistant", content |-> ai_response]>>,
                    ![sid].scores = scores,
                    ![sid].current_difficulty_adjustment = adj,
                    ![sid].question_count = @ + 1]
          /\ response' = Reply(sid, None, "analyze", 200,
                [user_text |-> user_text,
                 ai_response |-> DisplayResponse(ai_response),
                 question_number |-> session.question_count + 1,
                 history_length |-> Len(session.history) + 2,
                 score |-> score,
                 average_score |-> IF AvgTruthy(scores) THEN <<Round1(scores)>> ELSE <<>>,
                 total_scores |-> Len(scores),
                 difficulty_trend |-> DifficultyTrend(adj)])
    /\ UNCHANGED <<issued, interviews, interview_seq, loop, turns, deletes, interview_history>>

\* AverageOrNone with 0 for the average of no scores.
AverageOrNone_Zero(scores) == IF scores # <<>> THEN <<Round1(scores)>> ELSE <<0>>

\* avg_score of lines 770, 901, 1115, 1158, 1241 and 1292.
AverageOrNone(scores) == IF scores # <<>> THEN <<Round1(scores)>> ELSE <<>>

\* Trend that compares the last score with the one before it.
Trend_LastTwo(scores) ==
    IF Len(scores) >= 2 /\ scores[Len(scores)] > scores[Len(scores) - 1] THEN "improving"
    ELSE IF Len(scores) >= 2 /\ scores[Len(scores)] < scores[Len(scores) - 1] THEN "declining"
    ELSE "stable"

\* The trend of line 830.
Trend(scores) ==
    IF Len(scores) >= 2 /\ scores[Len(scores)] > scores[1] THEN "improving"
    ELSE IF Len(scores) >= 2 /\ scores[Len(scores)] < scores[1] THEN "declining"
    ELSE "stable"

FallbackSummary == "Unable to generate summary. Please try again."

\* Summary without the except clause of lines 811-812.
Summary_Generated(summarised) == "generated"

\* Lines 803-812: the summary the model wrote, or the fixed text.
Summary(summarised) == IF summarised THEN "generated" ELSE FallbackSummary

\* Lines 819-835: the result end_interview returns.
EndResult(sid, session, summary) ==
    [session_id |-> sid,
     total_questions |-> session.question_count,
     individual |-> session.scores,
     average |-> AverageOrNone(session.scores),
     min |-> IF session.scores # <<>> THEN <<SeqMin(session.scores)>> ELSE <<>>,
     max |-> IF session.scores # <<>> THEN <<SeqMax(session.scores)>> ELSE <<>>,
     trend |-> Trend(session.scores),
     summary |-> summary,
     history |-> session.history]

\* EndUpdate with the transcript assignment of line 842 forgotten.
EndUpdate_StaleTranscript(row, session, summary) ==
    [row EXCEPT !.scores = session.scores,
                !.average_score = AverageOrNone(session.scores),
                !.summary = summary,
                !.question_count = session.question_count,
                !.status = "completed"]

\* Lines 839-848: the row that is already there is brought up to date.
EndUpdate(row, session, summary) ==
    [row EXCEPT !.scores = session.scores,
                !.average_score = AverageOrNone(session.scores),
                !.transcript = session.history,
                !.summary = summary,
                !.question_count = session.question_count,
                !.status = "completed"]

\* Lines 850-871: the row added when none is there.  The session dict has no
\* "resume_text" or "job_description" key, so both flags are bool(None).
EndInsert(sid, session, summary) ==
    [session_id |-> sid,
     user_id |-> None,
     question_count |-> session.question_count,
     transcript |-> session.history,
     scores |-> session.scores,
     has_resume |-> FALSE,
     has_job_description |-> FALSE,
     average_score |-> AverageOrNone(session.scores),
     summary |-> summary,
     status |-> "completed"]

\* end_interview run while a turn of the same table is part-way through, as a
\* handler of the thread pool would be.
end_interview_MidTurn(sid, summarised, stored) ==
    /\ TRUE
    /\ IF sid \notin DOMAIN interview_sessions
       THEN /\ response' = Reply(sid, None, "end", 404, NoBody)
            /\ UNCHANGED <<interview_sessions, interviews, interview_seq>>
       ELSE LET session == interview_sessions[sid]
                summary == Summary(summarised)
            IN IF ~stored
               THEN /\ response' = Reply(sid, None, "end", 500, NoBody)
                    /\ UNCHANGED <<interview_sessions, interviews, interview_seq>>
               ELSE /\ IF RowsOfSession(sid) # {}
                       THEN /\ interviews' =
                                [interviews EXCEPT ![FirstRowOfSession(sid)] =
                                    EndUpdate(@, session, summary)]
                            /\ UNCHANGED interview_seq
                       ELSE /\ interview_seq' = interview_seq + 1
                            /\ interviews' = Put(interviews, interview_seq + 1,
                                                 EndInsert(sid, session, summary))
                    /\ interview_sessions' = Drop(interview_sessions, sid)
                    /\ response' = Reply(sid, None, "end", 200,
                                         EndResult(sid, session, summary))
    /\ UNCHANGED <<issued, loop, turns, deletes, interview_history>>

\* POST /interview/{session_id}/end.  summarised: the summary completion
\* returned; stored: the query and the commit of lines 838-873 went through.
\* When they raise, the exception leaves the handler before line 875.
end_interview(sid, summarised, stored) ==
    /\ loop = Idle
    /\ IF sid \notin DOMAIN interview_sessions
       THEN /\ response' = Reply(sid, None, "end", 404, NoBody)
            /\ UNCHANGED <<interview_sessions, interviews, interview_seq>>
       ELSE LET session == interview_sessions[sid]
                summary == Summary(summarised)
            IN IF ~stored
               THEN /\ response' = Reply(sid, None, "end", 500, NoBody)
                    /\ UNCHANGED <<interview_sessions, interviews, interview_seq>>
               ELSE /\ IF RowsOfSession(sid) # {}
                       THEN /\ interviews' =
                                [interviews EXCEPT ![FirstRowOfSession(sid)] =
                                    EndUpdate(@, session, summary)]
                            /\ UNCHANGED interview_seq
                       ELSE /\ interview_seq' = interview_seq + 1
                            /\ interviews' = Put(interviews, interview_seq + 1,
                                                 EndInsert(sid, session, summary))
                    /\ interview_sessions' = Drop(interview_sessions, sid)
                    /\ response' = Reply(sid, None, "end", 200,
                                         EndResult(sid, session, summary))
    /\ UNCHANGED <<issued, loop, turns, deletes, interview_history>>

\* ClaimExisting with the assignment of line 1266 forgotten.
ClaimExisting_NoLink(owner, user) ==
    IF owner = user
    THEN [code |-> 200, message |-> "Interview already saved", user_id |-> owner]
    ELSE IF owner = None
    THEN [code |-> 200, message |-> "Interview linked to your account", user_id |-> owner]
    ELSE [code |-> 403, message |-> "Interview belongs to another user", user_id |-> owner]

\* ClaimExisting with the test of line 1264 forgotten: any row of another
\* owner is linked.
ClaimExisting_Overwrite(owner, user) ==
    IF owner = user
    THEN [code |-> 200, message |-> "Interview already saved", user_id |-> owner]
    ELSE [code |-> 200, message |-> "Interview linked to your account", user_id |-> user]

\* Lines 1261-1271: what a save request does with a row that is already there:
\* the response and the owner the row is left with.
ClaimExisting(owner, user) ==
    IF owner = user
    THEN [code |-> 200, message |-> "Interview already saved", user_id |-> owner]
    ELSE IF owner = None
    THEN [code |-> 200, message |-> "Interview linked to your account", user_id |-> user]
    ELSE [code |-> 403, message |-> "Interview belongs to another user", user_id |-> owner]

\* Lines 1277-1300: the row built from the session in memory.  The session
\* dict has no "conversation", "resume_text" or "job_description" key.
ClaimInsert(sid, session, user) ==
    [session_id |-> sid,
     user_id |-> user,
     question_count |-> session.question_count,
     transcript |-> <<>>,
     scores |-> session.scores,
     has_resume |-> FALSE,
     has_job_description |-> FALSE,
     average_score |-> AverageOrNone(session.scores),
     summary |-> None,
     status |-> "completed"]

\* POST /user/interviews/save
save_interview_to_user_history(sid, user) ==
    /\ loop = Idle
    /\ IF RowsOfSession(sid) # {}
       THEN LET id == FirstRowOfSession(sid)
                outcome == ClaimExisting(interviews[id].user_id, user)
            IN /\ interviews' = [interviews EXCEPT ![id].user_id = outcome.user_id]
               /\ response' = Reply(sid, user, "save", outcome.code,
                                    [message |-> outcome.message, interview_id |-> id])
               /\ UNCHANGED interview_seq
       ELSE IF sid \notin DOMAIN interview_sessions
       THEN /\ response' = Reply(sid, user, "save", 404, NoBody)
            /\ UNCHANGED <<interviews, interview_seq>>
       ELSE /\ interview_seq' = interview_seq + 1
            /\ interviews' = Put(interviews, interview_seq + 1,
                                 ClaimInsert(sid, interview_sessions[sid], user))
            /\ response' = Reply(sid, user, "save", 200,
                                 [message |-> "Interview saved successfully",
                                  interview_id |-> interview_seq + 1])
    /\ UNCHANGED <<interview_sessions, issued, loop, turns, deletes, interview_history>>

\* delete_user_interview with the owner test of line 1479 forgotten.
delete_user_interview_AnyOwner(interview_id, user) ==
    /\ loop = Idle
    /\ IF interview_id \in DOMAIN interviews
       THEN /\ Work < MaxWork
            /\ interviews' = Drop(interviews, interview_id)
            /\ deletes' = deletes + 1
            /\ response' = Reply(None, user, "delete", 200, [interview_id |-> interview_id])
       ELSE /\ response' = Reply(None, user, "delete", 404, [interview_id |-> interview_id])
            /\ UNCHANGED <<interviews, deletes>>
    /\ UNCHANGED <<interview_sessions, issued, interview_seq, loop, turns, interview_history>>

\* DELETE /user/interviews/{interview_id}
delete_user_interview(interview_id, user) ==
    /\ loop = Idle
    /\ IF interview_id \in DOMAIN interviews /\ interviews[interview_id].user_id = user
       THEN /\ Work < MaxWork
            /\ interviews' = Drop(interviews, interview_id)
            /\ deletes' = deletes + 1
            /\ response' = Reply(None, user, "delete", 200, [interview_id |-> interview_id])
       ELSE /\ response' = Reply(None, user, "delete", 404, [interview_id |-> interview_id])
            /\ UNCHANGED <<interviews, deletes>>
    /\ UNCHANGED <<interview_sessions, issued, interview_seq, loop, turns, interview_history>>

\* Lines 1415-1427: what the list shows of a row; the clock fields are left out.
ListEntry(table, id) ==
    [id |-> id,
     session_id |-> table[id].session_id,
     question_count |-> table[id].question_count,
     average_score |-> table[id].average_score,
     scores |-> table[id].scores]

\* get_user_interviews with the status test of lines 1404 and 1409 forgotten.
get_user_interviews_AnyStatus(user) ==
    /\ loop = Idle
    /\ LET found == {id \in DOMAIN interviews : interviews[id].user_id = user}
       IN response' = Reply(None, user, "list", 200,
                            [total |-> Cardinality(found),
                             interviews |-> {ListEntry(interviews, id) : id \in found}])
    /\ UNCHANGED <<interview_sessions, issued, interviews, interview_seq, loop, turns, deletes, interview_history>>

\* GET /user/interviews with the default limit 20 and offset 0; a user has
\* fewer rows than the limit, and the order of the list is left out.
get_user_interviews(user) ==
    /\ loop = Idle
    /\ LET found == {id \in DOMAIN interviews :
                        interviews[id].user_id = user /\ interviews[id].status = "completed"}
       IN response' = Reply(None, user, "list", 200,
                            [total |-> Cardinality(found),
                             interviews |-> {ListEntry(interviews, id) : id \in found}])
    /\ UNCHANGED <<interview_sessions, issued, interviews, interview_seq, loop, turns, deletes, interview_history>>

\* GET /user/interviews/{interview_id}; the clock fields are left out.
get_user_interview_detail(interview_id, user) ==
    /\ loop = Idle
    /\ IF interview_id \in DOMAIN interviews /\ interviews[interview_id].user_id = user
       THEN response' = Reply(None, user, "detail", 200,
                    [interview_id |-> interview_id,
                     session_id |-> interviews[interview_id].session_id,
                     question_count |-> interviews[interview_id].question_count,
                     scores |-> interviews[interview_id].scores,
                     average_score |-> interviews[interview_id].average_score,
                     transcript |-> interviews[interview_id].transcript,
                     summary |-> interviews[interview_id].summary,
                     has_resume |-> interviews[interview_id].has_resume,
                     has_job_description |-> interviews[interview_id].has_job_description])
       ELSE response' = Reply(None, user, "detail", 404, [interview_id |-> interview_id])
    /\ UNCHANGED <<interview_sessions, issued, interviews, interview_seq, loop, turns, deletes, interview_history>>

\* get_session_status with the lookup of line 882 forgotten and every field
\* read with a default.
get_session_status_Defaults(sid) ==
    /\ IF sid \notin DOMAIN interview_sessions
       THEN response' = Reply(sid, None, "status", 200,
                    [question_count |-> 0,
                     history_length |-> 0,
                     current_average |-> <<>>,
                     has_resume |-> FALSE,
                     has_job_description |-> FALSE])
       ELSE LET session == interview_sessions[sid]
            IN response' = Reply(sid, None, "status", 200,
                    [question_count |-> session.question_count,
                     history_length |-> Len(session.history),
                     current_average |-> AverageOrNone(session.scores),
                     has_resume |-> session.has_resume,
                     has_job_description |-> session.has_job_description])
    /\ UNCHANGED <<interview_sessions, issued, interviews, interview_seq, loop, turns, deletes, interview_history>>

\* GET /interview/{session_id}/status; the clock fields are left out.
get_session_status(sid) ==
    /\ IF sid \notin DOMAIN interview_sessions
       THEN response' = Reply(sid, None, "status", 404, NoBody)
       ELSE LET session == interview_sessions[sid]
            IN response' = Reply(sid, None, "status", 200,
                    [question_count |-> session.question_count,
                     history_length |-> Len(session.history),
                     current_average |-> AverageOrNone(session.scores),
                     has_resume |-> session.has_resume,
                     has_job_description |-> session.has_job_description])
    /\ UNCHANGED <<interview_sessions, issued, interviews, interview_seq, loop, turns, deletes, interview_history>>

\* GET /interview/{session_id}/time; every field of the answer is a clock reading.
get_interview_time(sid) ==
    /\ IF sid \notin DOMAIN interview_sessions
       THEN response' = Reply(sid, None, "time", 404, NoBody)
       ELSE response' = Reply(sid, None, "time", 200, NoBody)
    /\ UNCHANGED <<interview_sessions, issued, interviews, interview_seq, loop, turns, deletes, interview_history>>

UserMessages(history) == {i \in 1..Len(history) : history[i].role = "user"}

\* GET /interview/{session_id}/analytics; the clock and word counts are left out.
get_detailed_analytics(sid) ==
    /\ IF sid \notin DOMAIN interview_sessions
       THEN response' = Reply(sid, None, "analytics", 404, NoBody)
       ELSE LET session == interview_sessions[sid]
                scores == session.scores
            IN response' = Reply(sid, None, "analytics", 200,
                    [all |-> scores,
                     average |-> AverageOrNone(scores),
                     highest |-> IF scores # <<>> THEN <<SeqMax(scores)>> ELSE <<>>,
                     lowest |-> IF scores # <<>> THEN <<SeqMin(scores)>> ELSE <<>>,
                     total_questions |-> session.question_count,
                     total_responses |-> Cardinality(UserMessages(session.history)),
                     difficulty_adjustment |-> session.current_difficulty_adjustment])
    /\ UNCHANGED <<interview_sessions, issued, interviews, interview_seq, loop, turns, deletes, interview_history>>

\* Lines 1160-1172: the transcript of the report, from message i on.
RECURSIVE ExportTranscript(_, _, _, _)
ExportTranscript(history, scores, i, score_index) ==
    IF i > Len(history) THEN <<>>
    ELSE LET msg == history[i]
             scored == msg.role = "user" /\ score_index < Len(scores)
             entry == [role |-> IF msg.role = "assistant" THEN "Interviewer" ELSE "You",
                       content |-> StripScore(msg.content),
                       score |-> IF scored THEN <<scores[score_index + 1]>> ELSE <<>>]
         IN <<entry>> \o ExportTranscript(history, scores, i + 1,
                                          IF scored THEN score_index + 1 ELSE score_index)

\* POST /interview/{session_id}/export
export_interview_report(sid) ==
    /\ IF sid \notin DOMAIN interview_sessions
       THEN response' = Reply(sid, None, "export", 404, NoBody)
       ELSE LET session == interview_sessions[sid]
            IN response' = Reply(sid, None, "export", 200,
                    [total_questions |-> session.question_count,
                     scores |-> session.scores,
                     average_score |-> AverageOrNone(session.scores),
                     resume_provided |-> session.has_resume,
                     job_description_provided |-> session.has_job_description,
                     transcript |-> ExportTranscript(session.history, session.scores, 1, 0)])
    /\ UNCHANGED <<interview_sessions, issued, interviews, interview_seq, loop, turns, deletes, interview_history>>

\* Lines 971-990: the question and answer pairs, from message i on.
\* current_question is <<>> for None; an empty question is as false as None.
RECURSIVE QaPairs(_, _, _, _, _, _)
QaPairs(history, scores, i, current_question, score_index, count) ==
    IF i > Len(history) THEN <<>>
    ELSE LET msg == history[i]
         IN IF msg.role = "assistant"
            THEN QaPairs(history, scores, i + 1, StripScore(msg.content), score_index, count)
            ELSE IF msg.role = "user" /\ current_question # <<>>
            THEN <<[index |-> count + 1,
                    question |-> current_question,
                    answer |-> msg.content,
                    score |-> IF score_index < Len(scores)
                              THEN <<scores[score_index + 1]>> ELSE <<>>]>>
                 \o QaPairs(history, scores, i + 1, <<>>, score_index + 1, count + 1)
            ELSE QaPairs(history, scores, i + 1, current_question, score_index, count)

\* POST /interview/{session_id}/question-feedback; the feedback text the model
\* writes for each pair is left out.
get_question_feedback(sid) ==
    /\ loop = Idle
    /\ IF sid \notin DOMAIN interview_sessions
       THEN response' = Reply(sid, None, "question-feedback", 404, NoBody)
       ELSE LET session == interview_sessions[sid]
            IN response' = Reply(sid, None, "question-feedback", 200,
                    [questions |-> QaPairs(session.history, session.scores, 1, <<>>, 0, 0)])
    /\ UNCHANGED <<interview_sessions, issued, interviews, interview_seq, loop, turns, deletes, interview_history>>

\* Line 2136: the user's messages, in order.
UserMessageSeq(history) == SelectSeq(history, LAMBDA msg : msg.role = "user")

\* The values of answer_index the model sends: the default and three positions.
AnswerIndexes == {-1, 0, 1, 2}

\* POST /interview/{session_id}/speech-analysis; the speech quality, the STAR
\* analysis and the coaching tips, which are computed from the text and the
\* score, are left out.
analyze_speech(sid, answer_index) ==
    /\ loop = Idle
    /\ IF sid \notin DOMAIN interview_sessions
       THEN response' = Reply(sid, None, "speech-analysis", 404, NoBody)
       ELSE LET session == interview_sessions[sid]
                user_messages == UserMessageSeq(session.history)
                scores == session.scores
            IN IF user_messages = <<>>
               THEN response' = Reply(sid, None, "speech-analysis", 400, NoBody)
               ELSE IF answer_index # -1 /\ answer_index >= Len(user_messages)
               THEN response' = Reply(sid, None, "speech-analysis", 400, NoBody)
               ELSE LET answer_num == IF answer_index = -1 THEN Len(user_messages)
                                      ELSE answer_index + 1
                    IN response' = Reply(sid, None, "speech-analysis", 200,
                            [answer_number |-> answer_num,
                             text_analyzed |-> user_messages[answer_num].content,
                             score |-> IF answer_num <= Len(scores)
                                       THEN <<scores[answer_num]>> ELSE <<>>])
    /\ UNCHANGED <<interview_sessions, issued, interviews, interview_seq, loop, turns, deletes, interview_history>>

\* Lines 1231-1244: the entry save_to_history builds; its own uuid4 id, the
\* topic labels and the clock fields are left out.
HistoryEntry(sid, session) ==
    [session_id |-> sid,
     questions_count |-> session.question_count,
     average_score |-> AverageOrNone(session.scores),
     scores |-> session.scores]

\* POST /interview/history/save, a handler of the thread pool.
save_to_history(sid) ==
    /\ IF sid \notin DOMAIN interview_sessions
       THEN /\ response' = Reply(sid, None, "history-save", 404, NoBody)
            /\ UNCHANGED interview_history
       ELSE /\ Len(interview_history) < MaxSaved
            /\ interview_history' =
                  Append(interview_history, HistoryEntry(sid, interview_sessions[sid]))
            /\ response' = Reply(sid, None, "history-save", 200,
                                 [success |-> TRUE,
                                  history_index |-> Len(interview_history) + 1])
    /\ UNCHANGED <<interview_sessions, issued, interviews, interview_seq, loop, turns, deletes>>

\* database.save_interview_to_user(session_id, user_id), the helper of the
\* document-store module, on the interviews collection: update_one sets
\* user_id on the first document with the session id, whatever it held, and
\* the document is read back; None is returned when no document matched.
\* returned is <<>> for None and otherwise holds the document's owner.
save_interview_to_user(session_id, user_id) ==
    /\ loop = Idle
    /\ IF RowsOfSession(session_id) # {}
       THEN LET id == FirstRowOfSession(session_id)
            IN /\ interviews' = [interviews EXCEPT ![id].user_id = user_id]
               /\ response' = Reply(session_id, user_id, "save_interview_to_user", 0,
                                    [returned |-> <<user_id>>, interview_id |-> id])
       ELSE /\ response' = Reply(session_id, user_id, "save_interview_to_user", 0,
                                 [returned |-> <<>>, interview_id |-> 0])
            /\ UNCHANGED interviews
    /\ UNCHANGED <<interview_sessions, issued, interview_seq, loop, turns, deletes, interview_history>>

(***************************************************************************)
(* The claims.                                                             *)
(***************************************************************************)

\* A step in which the handler op sends a response that differs from the last one.
Responded(op) == response' # response /\ response'.op = op

\* C1: when the chat completion of a turn fails, the session's history and
\* scores are what they were when the turn request arrived, and the session is
\* still in the table.
C1_FailedTurnLeavesSession ==
    [][(loop.op = "analyze" /\ loop.pc = "chat" /\ loop' = Idle /\ response'.code = 500)
       => /\ loop.sid \in DOMAIN interview_sessions'
          /\ interview_sessions'[loop.sid].history = loop.before.history
          /\ interview_sessions'[loop.sid].scores = loop.before.scores]_vars

\* C2: an end request for a session that is in the table succeeds and removes
\* it, and an end request for an identifier that is not in the table (so every
\* later one) is answered 404.
C2_EndExactlyOnce ==
    [][Responded("end")
       => IF response'.sid \in DOMAIN interview_sessions
          THEN response'.code = 200 /\ response'.sid \notin DOMAIN interview_sessions'
          ELSE response'.code = 404]_vars

\* The handlers of C3, by the name their responses carry.
SessionOps == {"analyze", "status", "time", "analytics", "export", "question-feedback"}

\* C3: turn, status, time, analytics, export and question-feedback on an
\* identifier that is not in the table are answered 404 and change neither the
\* table nor the Interview rows.
C3_UnknownIdNotFound ==
    [][\A op \in SessionOps :
         (Responded(op) /\ response'.sid \notin DOMAIN interview_sessions)
         => /\ response'.code = 404
            /\ interview_sessions' = interview_sessions
            /\ interviews' = interviews]_vars

\* An ended session's identifier was answered 404 by one of these handlers.
C3_Witness ==
    /\ response.op \in SessionOps
    /\ response.code = 404
    /\ response.sid = SessionSeq[1]
    /\ issued >= 1

\* The opening message, then user messages and replies in turn.
WellPaired(history) ==
    /\ Len(history) % 2 = 1
    /\ history[1] = [role |-> "assistant", content |-> Opening]
    /\ \A i \in 2..Len(history) :
         history[i].role = (IF i % 2 = 0 THEN "user" ELSE "assistant")

\* C4: whenever no turn is in progress, every history is the opening message
\* followed by whole pairs of a user message and the reply to it.
C4_HistoryIsWholePairs ==
    loop = Idle => \A sid \in DOMAIN interview_sessions :
                      WellPaired(interview_sessions[sid].history)

\* C5: a save request that finds a row without an owner makes the requester
\* its owner and succeeds; one that finds a row the requester owns answers
\* "Interview already saved" and changes nothing.
C5_ClaimLinksOrIsNoop ==
    [][(Responded("save") /\ RowsOfSession(response'.sid) # {})
       => LET id == FirstRowOfSession(response'.sid)
              owner == interviews[id].user_id
          IN /\ owner = None
                => /\ response'.code = 200
                   /\ interviews' = [interviews EXCEPT ![id].user_id = response'.user]
             /\ owner = response'.user
                => /\ response'.code = 200
                   /\ response'.body.message = "Interview already saved"
                   /\ interviews' = interviews
                   /\ interview_sessions' = interview_sessions]_vars

\* The owner of a row that was linked asked again and was told it is saved.
C5_Witness ==
    /\ response.op = "save"
    /\ response.code = 200
    /\ response.body.message = "Interview already saved"
    /\ \E id \in RowsOfSession(response.sid) :
         interviews[id].user_id = response.user /\ interviews[id].status = "completed"

\* C6: a save request by an identity other than the row's owner is answered
\* 403 and leaves every row and the table as they were.
C6_ClaimByOtherDenied ==
    [][(Responded("save") /\ RowsOfSession(response'.sid) # {})
       => LET owner == interviews[FirstRowOfSession(response'.sid)].user_id
          IN (owner # None /\ owner # response'.user)
             => /\ response'.code = 403
                /\ interviews' = interviews
                /\ interview_sessions' = interview_sessions]_vars

\* Another identity asked for a row that has an owner and was refused.
C6_Witness ==
    /\ response.op = "save"
    /\ response.code = 403
    /\ \E id \in RowsOfSession(response.sid) :
         interviews[id].user_id \in Users \ {response.user}

\* C7: a save request for a session that is in the table and has no row
\* succeeds with a row the requester owns whose transcript, scores and flags
\* are the session's history, scores and flags.
C7_ClaimFromMemorySnapshot ==
    [][(Responded("save") /\ response'.sid \in DOMAIN interview_sessions
                          /\ RowsOfSession(response'.sid) = {})
       => LET session == interview_sessions[response'.sid]
          IN /\ response'.code = 200
             /\ \E id \in RowsIn(interviews', response'.sid) :
                  /\ interviews'[id].user_id = response'.user
                  /\ interviews'[id].transcript = session.history
                  /\ interviews'[id].scores = session.scores
                  /\ interviews'[id].has_resume = session.has_resume
                  /\ interviews'[id].has_job_description = session.has_job_description]_vars

C9_EndPersistsSnapshot ==
    [][(Responded("end") /\ response'.code = 200)
       => LET sid == response'.sid
              session == interview_sessions[sid]
              after == RowsIn(interviews', sid)
          IN /\ Cardinality(after) = 1
             /\ \A id \in after :
                  /\ interviews'[id].status = "completed"
                  /\ interviews'[id].transcript = session.history
                  /\ interviews'[id].scores = session.scores
                  /\ interviews'[id].question_count = session.question_count
                  /\ IF RowsOfSession(sid) # {}
                     THEN /\ id \in RowsOfSession(sid)
                          /\ interviews'[id].user_id = interviews[id].user_id
                     ELSE interviews'[id].user_id = None]_vars

\* An owned session with a scored turn was ended and its row holds the turn.
C9_Witness ==
    /\ response.op = "end"
    /\ response.code = 200
    /\ \E id \in RowsOfSession(response.sid) :
         /\ interviews[id].user_id = "alice"
         /\ interviews[id].status = "completed"
         /\ Len(interviews[id].transcript) = 3
         /\ Len(interviews[id].scores) = 1

\* C10: an end request for a session that is in the table removes it from the
\* table whether or not the rows could be written.
C10_EndAlwaysEvicts ==
    [][(Responded("end") /\ response'.sid \in DOMAIN interview_sessions)
       => response'.sid \notin DOMAIN interview_sessions']_vars

\* C11: when the summary completion fails and the rows can be written, an
\* end request for a session in the table is answered 200 with the fixed
\* fallback summary, leaves a completed row that holds the fallback summary and
\* the session's history and scores, and removes the session from the table.
C11_SummaryFailureDoesNotBlockEnd ==
    [][\A sid \in SessionIds :
         (sid \in DOMAIN interview_sessions /\ end_interview(sid, FALSE, TRUE))
         => /\ response'.code = 200
            /\ response'.body.summary = FallbackSummary
            /\ sid \notin DOMAIN interview_sessions'
            /\ \E id \in RowsIn(interviews', sid) :
                 /\ interviews'[id].summary = FallbackSummary
                 /\ interviews'[id].status = "completed"
                 /\ interviews'[id].transcript = interview_sessions[sid].history
                 /\ interviews'[id].scores = interview_sessions[sid].scores]_vars

\* A session was ended with the fallback summary, which its row holds.
C11_Witness ==
    /\ response.op = "end"
    /\ response.code = 200
    /\ response.body.summary = FallbackSummary
    /\ response.sid \notin DOMAIN interview_sessions
    /\ \E id \in RowsOfSession(response.sid) : interviews[id].summary = FallbackSummary

\* C12: an end request for a session without scores (one that had no turn
\* among them) whose rows can be written is answered 200 with no average, no
\* min, no max and the trend "stable".
C12_EndWithoutScores ==
    [][\A sid \in SessionIds, summarised \in BOOLEAN :
         (/\ sid \in DOMAIN interview_sessions
          /\ interview_sessions[sid].scores = <<>>
          /\ end_interview(sid, summarised, TRUE))
         => /\ response'.code = 200
            /\ response'.body.average = <<>>
            /\ response'.body.min = <<>>
            /\ response'.body.max = <<>>
            /\ response'.body.trend = "stable"]_vars

\* A session that had no turn was ended: its history is the opening alone.
C12_Witness ==
    /\ response.op = "end"
    /\ response.code = 200
    /\ Len(response.body.history) = 1
    /\ response.body.individual = <<>>
    /\ response.body.average = <<>>
    /\ response.body.trend = "stable"

\* C13 as stated: a turn whose reply carries a score moves the adjustment by
\* +1 when the average of all scores is at least 8 and the adjustment is below
\* 2, by -1 when the average is at most 4 and the adjustment is above -2, and
\* not at all otherwise; a turn whose reply carries no score leaves the
\* adjustment as it was.
C13_PolicyOnlyAfterScore ==
    [][(loop.op = "analyze" /\ loop.pc = "chat" /\ loop'.op = "analyze" /\ loop'.pc = "append")
       => LET adj == interview_sessions[loop.sid].current_difficulty_adjustment
              adj_after == interview_sessions'[loop.sid].current_difficulty_adjustment
              scores == interview_sessions'[loop.sid].scores
          IN IF loop'.score = <<>>
             THEN adj_after = adj
             ELSE adj_after = adj + (IF Sum(scores) >= 8 * Len(scores) /\ adj < 2 THEN 1
                                     ELSE IF Sum(scores) <= 4 * Len(scores) /\ adj > -2 THEN -1
                                     ELSE 0)]_vars

\* C14: the adjustment of every session is between -2 and 2, and it is 0 for
\* a session that has not had a recording accepted since it was created.
C14_AdjustmentInRange ==
    \A sid \in DOMAIN interview_sessions :
        /\ interview_sessions[sid].current_difficulty_adjustment \in -2..2
        /\ Len(interview_sessions[sid].history) = 1
           => interview_sessions[sid].current_difficulty_adjustment = 0

\* The adjustment stands at 2 after a third high score.
C14_Witness ==
    \E sid \in DOMAIN interview_sessions :
        /\ interview_sessions[sid].current_difficulty_adjustment = 2
        /\ Len(interview_sessions[sid].scores) = 3

\* Every score of the list is n.
AllEqual(scores, n) == \A i \in 1..Len(scores) : scores[i] = n

\* C15: after turns that all scored 10 the adjustment is 1 after the first and
\* 2 after every later one, the tenth among them; after turns that all scored 1
\* it is -1 after the first and -2 after every later one.
C15_TenTurnsSaturate ==
    \A sid \in DOMAIN interview_sessions :
        LET scores == interview_sessions[sid].scores
            adj == interview_sessions[sid].current_difficulty_adjustment
        IN /\ (scores # <<>> /\ AllEqual(scores, 10))
              => adj = (IF Len(scores) = 1 THEN 1 ELSE 2)
           /\ (scores # <<>> /\ AllEqual(scores, 1))
              => adj = (IF Len(scores) = 1 THEN -1 ELSE -2)

\* Ten turns in a row scored 10 and the adjustment is 2.
C15_Witness ==
    \E sid \in DOMAIN interview_sessions :
        /\ Len(interview_sessions[sid].scores) = 10
        /\ AllEqual(interview_sessions[sid].scores, 10)
        /\ interview_sessions[sid].current_difficulty_adjustment = 2

\* C16: the trend an end request returns is "improving" exactly when there are
\* two scores or more and the last is above the first, "declining" exactly when
\* there are two or more and the last is below the first, and "stable" otherwise.
C16_TrendByFirstAndLast ==
    (response.op = "end" /\ response.code = 200)
    => LET scores == response.body.individual
           trend == response.body.trend
           up == Len(scores) >= 2 /\ scores[Len(scores)] > scores[1]
           down == Len(scores) >= 2 /\ scores[Len(scores)] < scores[1]
       IN /\ trend \in {"improving", "declining", "stable"}
          /\ trend = "improving" <=> up
          /\ trend = "declining" <=> down

\* A session whose scores went up, down or up again was ended.
C16_Witness ==
    /\ response.op = "end"
    /\ response.code = 200
    /\ Len(response.body.individual) = 3
    /\ response.body.individual[1] = response.body.individual[3]
    /\ response.body.individual[2] # response.body.individual[3]
    /\ response.body.trend = "stable"

\* C17: for a session with scores, the average an end request returns is a
\* tenth nearest to the mean of the scores, and min and max are the smallest
\* and the largest of the scores.
C17_AverageMinMax ==
    (response.op = "end" /\ response.code = 200 /\ response.body.individual # <<>>)
    => LET scores == response.body.individual
           n == Len(scores)
       IN /\ Len(response.body.average) = 1
          /\ 2 * (response.body.average[1] * n - 10 * Sum(scores)) <= n
          /\ 2 * (10 * Sum(scores) - response.body.average[1] * n) <= n
          /\ Len(response.body.min) = 1
          /\ Len(response.body.max) = 1
          /\ \E i \in 1..n : scores[i] = response.body.min[1]
          /\ \E i \in 1..n : scores[i] = response.body.max[1]
          /\ \A i \in 1..n : response.body.min[1] <= scores[i] /\ scores[i] <= response.body.max[1]

\* A session with seven scores whose mean is not a whole number of tenths was ended.
C17_Witness ==
    /\ response.op = "end"
    /\ response.code = 200
    /\ Len(response.body.individual) = 7
    /\ (10 * Sum(response.body.individual)) % 7 # 0
    /\ response.body.min # response.body.max

\* C18: in every state, a session has at most half as many scores as history
\* entries and at most as many scores as user messages.
C18_ScoresBoundedByTurns ==
    \A sid \in DOMAIN interview_sessions :
        /\ 2 * Len(interview_sessions[sid].scores) <= Len(interview_sessions[sid].history)
        /\ Len(interview_sessions[sid].scores)
               <= Cardinality(UserMessages(interview_sessions[sid].history))

\* A turn has recorded its score and not yet appended its reply: the scores
\* are exactly half the history.
C18_Witness ==
    /\ loop.op = "analyze"
    /\ loop.pc = "append"
    /\ interview_sessions[loop.sid].scores # <<>>
    /\ 2 * Len(interview_sessions[loop.sid].scores) = Len(interview_sessions[loop.sid].history)

\* a is an initial part of b.
IsPrefix(a, b) == Len(a) <= Len(b) /\ SubSeq(b, 1, Len(a)) = a

\* C19: a turn whose completion returns goes on to answer 200; when the reply
\* has a marker the number of its first marker is appended to the scores, once,
\* and when it has none (a malformed one included) the scores stay as they
\* were; no step of a turn changes or removes a score that is there.
C19_TurnAppendsOneScore ==
    [][/\ \A ai_response \in TurnReplies :
            analyze_audio_chat(TRUE, ai_response)
            => LET before == interview_sessions[loop.sid].scores
                   after == interview_sessions'[loop.sid].scores
                   markers == {i \in 1..Len(ai_response) : ai_response[i].kind = "marker"}
               IN /\ loop'.op = "analyze" /\ loop'.pc = "append"
                  /\ markers = {} => after = before
                  /\ \A i \in markers :
                        (\A j \in markers : i <= j) => after = Append(before, ai_response[i].n)
       /\ analyze_audio_finish
            => /\ response'.code = 200
               /\ response'.body.score = loop.score
               /\ interview_sessions'[loop.sid].scores = interview_sessions[loop.sid].scores
       /\ \A sid \in DOMAIN interview_sessions :
            /\ sid \in DOMAIN interview_sessions'
            /\ IsPrefix(interview_sessions[sid].scores, interview_sessions'[sid].scores)]_vars

\* A turn whose reply had a malformed marker was answered without a score,
\* after a turn that was scored.
C19_Witness ==
    /\ response.op = "analyze"
    /\ response.code = 200
    /\ response.body.score = <<>>
    /\ \E i \in 1..Len(response.body.ai_response) : response.body.ai_response[i].kind = "broken"
    /\ Len(interview_sessions[response.sid].scores) = 1

\* The message start_interview puts first.
OpeningMessage == [role |-> "assistant", content |-> Opening]

\* C20: every step leaves the history of a session that stays in the table an
\* extension of what it was, and the first entry of every history, that of a
\* session just started too, is the assistant's opening message.
C20_HistoryAppendOnly ==
    [][/\ \A sid \in DOMAIN interview_sessions \cap DOMAIN interview_sessions' :
            /\ IsPrefix(interview_sessions[sid].history, interview_sessions'[sid].history)
            /\ interview_sessions'[sid].history[1] = OpeningMessage
       /\ \A sid \in DOMAIN interview_sessions' \ DOMAIN interview_sessions :
            interview_sessions'[sid].history[1] = OpeningMessage]_vars

\* A history grew over two turns with the opening still first.
C20_Witness ==
    \E sid \in DOMAIN interview_sessions :
        /\ Len(interview_sessions[sid].history) = 5
        /\ interview_sessions[sid].history[1] = OpeningMessage
        /\ interview_sessions[sid].history[2].role = "user"

\* C21: whenever no turn is in progress, every history has 2k+1 entries, k
\* being the turns of the session that succeeded, and its entries are by turns
\* the assistant's and the user's, the assistant's first.
C21_HistoryAlternates ==
    loop = Idle
    => \A sid \in DOMAIN interview_sessions :
          LET history == interview_sessions[sid].history
              k == interview_sessions[sid].question_count - 1
          IN /\ Len(history) = 2 * k + 1
             /\ \A i \in 1..Len(history) :
                  history[i].role = (IF i % 2 = 1 THEN "assistant" ELSE "user")

\* C22: the entry a turn appends to the history is the reply as the model gave
\* it, markers included; the text the turn returns is the reply itself when it
\* has no marker, and otherwise the reply's tokens other than markers.
C22_HistoryKeepsMarkerDisplayDropsIt ==
    [][analyze_audio_finish
       => LET history == interview_sessions'[loop.sid].history
              reply == loop.ai_response
              shown == response'.body.ai_response
              markers == {i \in 1..Len(reply) : reply[i].kind = "marker"}
          IN /\ history[Len(history)] = [role |-> "assistant", content |-> reply]
             /\ markers = {} => shown = reply
             /\ markers # {}
                => /\ Len(shown) = Len(reply) - Cardinality(markers)
                   /\ \A i \in 1..Len(shown) : shown[i].kind # "marker"
                   /\ \A i \in 1..Len(reply) :
                        i \notin markers => \E j \in 1..Len(shown) : shown[j] = reply[i]]_vars

\* A scored reply went into the history with its marker and to the caller
\* without it, a malformed marker staying in both.
C22_Witness ==
    /\ response.op = "analyze"
    /\ response.code = 200
    /\ response.body.score # <<>>
    /\ \E i \in 1..Len(response.body.ai_response) : response.body.ai_response[i].kind = "broken"
    /\ LET history == interview_sessions[response.sid].history
       IN \E i \in 1..Len(history[Len(history)].content) :
            history[Len(history)].content[i].kind = "marker"

\* C23 as stated: when a turn on a session that has an owner returns, every
\* row of the session holds the session's history, scores and question count.
C23_TurnWritesThrough ==
    [][(analyze_audio_finish /\ interview_sessions[loop.sid].user_id # None)
       => \A id \in RowsIn(interviews', loop.sid) :
            /\ interviews'[id].transcript = interview_sessions'[loop.sid].history
            /\ interviews'[id].scores = interview_sessions'[loop.sid].scores
            /\ interviews'[id].question_count = interview_sessions'[loop.sid].question_count]_vars

\* C24 as stated: a status, analytics or export read that is answered while a
\* turn on the same session is under way shows the session as the turn found
\* it, without the turn's user message.
C24_ReadSeesNoPartialTurn ==
    [][\A op \in {"status", "analytics", "export"} :
         (/\ Responded(op)
          /\ response'.code = 200
          /\ loop.op = "analyze"
          /\ loop.sid = response'.sid)
         => /\ op = "status"
               => response'.body.history_length = Len(loop.before.history)
            /\ op = "analytics"
               => response'.body.total_responses
                      = Cardinality(UserMessages(loop.before.history))
            /\ op = "export"
               => Len(response'.body.transcript) = Len(loop.before.history)]_vars

\* C25 as stated: a session whose client never asks for the end is removed
\* from the table in the end.
C25_AbandonedSessionReaped ==
    <>(SessionSeq[1] \notin DOMAIN interview_sessions)

\* The identifiers handed out so far.
IssuedIds == {SessionSeq[i] : i \in 1..issued}

C27_ConfigurationIsFixed ==
    [][/\ \A user \in Starters, config \in Configs :
            start_interview(user, config)
            => /\ interview_sessions'[response'.sid].has_resume = config.resume_text
               /\ interview_sessions'[response'.sid].has_job_description = config.job_description
               /\ interview_sessions'[response'.sid].user_id = user
       /\ \A sid \in DOMAIN interview_sessions \cap DOMAIN interview_sessions' :
            /\ interview_sessions'[sid].has_resume = interview_sessions[sid].has_resume
            /\ interview_sessions'[sid].has_job_description
                   = interview_sessions[sid].has_job_description
            /\ interview_sessions'[sid].user_id = interview_sessions[sid].user_id]_vars

\* A session alice started with a resume has had a turn and still has both.
C27_Witness ==
    \E sid \in DOMAIN interview_sessions :
        /\ interview_sessions[sid].user_id = "alice"
        /\ interview_sessions[sid].has_resume
        /\ Len(interview_sessions[sid].history) >= 3

\* C28: every entry of the list a user is given is a row that user owns and
\* that is completed, every such row is in the list, and the total is their
\* number.
C28_ListIsOwnedAndCompleted ==
    [][\A user \in Users :
         get_user_interviews(user)
         => LET owned == {id \in DOMAIN interviews :
                             interviews[id].user_id = user
                             /\ interviews[id].status = "completed"}
                listed == {entry.id : entry \in response'.body.interviews}
            IN /\ response'.code = 200
               /\ listed = owned
               /\ response'.body.total = Cardinality(owned)
               /\ \A entry \in response'.body.interviews :
                    entry.session_id = interviews[entry.id].session_id]_vars

\* A user who has a completed row and an active one was listed the completed one.
C28_Witness ==
    /\ response.op = "list"
    /\ response.body.total = 1
    /\ \E id \in DOMAIN interviews :
         interviews[id].user_id = response.user /\ interviews[id].status = "active"
    /\ \E id \in DOMAIN interviews :
         interviews[id].user_id = response.user /\ interviews[id].status = "completed"

\* C29: a detail or delete request is answered 200 only when the requester
\* owns the row; on a row of another owner (or of none) it is answered 404 and
\* the rows stay as they were.
C29_DetailAndDeleteByOwnerOnly ==
    [][\A interview_id \in 1..(interview_seq + 1), user \in Users :
         LET there == interview_id \in DOMAIN interviews
             mine == there /\ interviews[interview_id].user_id = user
         IN /\ get_user_interview_detail(interview_id, user)
               => /\ response'.code = (IF mine THEN 200 ELSE 404)
                  /\ interviews' = interviews
            /\ delete_user_interview(interview_id, user)
               => /\ response'.code = (IF mine THEN 200 ELSE 404)
                  /\ ~mine => interviews' = interviews
                  /\ mine => interviews' = Drop(interviews, interview_id)]_vars

\* A user asked to delete a row of another user and was told there is none.
C29_Witness ==
    /\ response.op = "delete"
    /\ response.code = 404
    /\ response.body.interview_id \in DOMAIN interviews
    /\ interviews[response.body.interview_id].user_id \in Users \ {response.user}

\* C30 as stated, for the sessions still in the table: every row of a session
\* that an identity started has that identity as its owner.
C30_RowsOfOwnedSessionKeepOwner ==
    \A sid \in DOMAIN interview_sessions :
        interview_sessions[sid].user_id # None
        => \A id \in RowsOfSession(sid) :
              interviews[id].user_id = interview_sessions[sid].user_id

\* C31 as stated: every score of every session is between 1 and 10.
C31_ScoresFromOneToTen ==
    \A sid \in DOMAIN interview_sessions :
        \A i \in 1..Len(interview_sessions[sid].scores) :
            interview_sessions[sid].scores[i] \in 1..10

\* C35 as stated: the average a turn returns is absent exactly when the
\* session has no scores, and otherwise it is the current_average a status
\* read of the session as the turn leaves it reports.
C35_TurnAverageIsStatusAverage ==
    [][analyze_audio_finish
       => /\ response'.body.average_score = <<>>
                <=> interview_sessions'[loop.sid].scores = <<>>
          /\ response'.body.average_score
                = AverageOrNone(interview_sessions'[loop.sid].scores)]_vars

\* C32 as stated: of two end requests for a session that was in the table
\* when the first arrived, sent one after the other, the first is answered 200
\* and the second 404, and the session is left with at most one row.
C32_SecondEndIsNotFound ==
    [][(/\ response.op = "end"
        /\ response.code # 404
        /\ Responded("end")
        /\ response'.sid = response.sid)
       => /\ response.code = 200
          /\ response'.code = 404
          /\ Cardinality(RowsIn(interviews', response'.sid)) <= 1]_vars

\* C33: a turn that answers 200 leaves its session in the table with the
\* utterance and the reply as the last two messages and the score it returned
\* as the last score; an end request that answers 200 runs with no turn
\* part-way through, and what it returns and what its row holds are the
\* history and the scores of the session at that moment.
C33_EndSnapshotHoldsEveryTurn ==
    [][/\ (Responded("analyze") /\ response'.code = 200)
          => LET sid == response'.sid IN
             /\ sid \in DOMAIN interview_sessions'
             /\ LET h == interview_sessions'[sid].history
                    sc == interview_sessions'[sid].scores
                IN /\ Len(h) >= 3
                   /\ h[Len(h) - 1] = [role |-> "user", content |-> response'.body.user_text]
                   /\ h[Len(h)].role = "assistant"
                   /\ DisplayResponse(h[Len(h)].content) = response'.body.ai_response
                   /\ response'.body.score # <<>>
                        => (sc # <<>> /\ sc[Len(sc)] = response'.body.score[1])
       /\ (Responded("end") /\ response'.code = 200)
          => LET sid == response'.sid
                 session == interview_sessions[sid]
             IN /\ loop = Idle
                /\ loop' = Idle
                /\ sid \notin DOMAIN interview_sessions'
                /\ response'.body.history = session.history
                /\ response'.body.individual = session.scores
                /\ \A id \in RowsIn(interviews', sid) :
                     /\ interviews'[id].transcript = session.history
                     /\ interviews'[id].scores = session.scores]_vars

\* A session was ended after a scored turn and the result carries the turn.
C33_Witness ==
    /\ response.op = "end"
    /\ response.code = 200
    /\ Len(response.body.history) = 3
    /\ response.body.history[2].role = "user"
    /\ response.body.individual = <<9>>

\* The position in history of the k-th message of the user.
KthAnswer(history, k) ==
    CHOOSE i \in UserMessages(history) :
        Cardinality({j \in UserMessages(history) : j <= i}) = k

\* The score the model gave for the answer at position i: the one in the
\* reply that follows it, if there is a reply and it carries a marker.
GivenScore(history, i) ==
    IF i < Len(history) /\ history[i + 1].role = "assistant"
    THEN ParseScore(history[i + 1].content)
    ELSE <<>>

\* C34 as stated: with no turn part-way through, the score that export,
\* question-feedback and speech-analysis show with an answer of the user is the
\* score in the reply to that answer, and none when the reply had no marker.
C34_ScoreShownIsScoreGiven ==
    [][loop = Idle =>
        /\ (Responded("export") /\ response'.code = 200)
           => LET h == interview_sessions[response'.sid].history
              IN \A i \in UserMessages(h) :
                    response'.body.transcript[i].score = GivenScore(h, i)
        /\ (Responded("question-feedback") /\ response'.code = 200)
           => LET h == interview_sessions[response'.sid].history
                  q == response'.body.questions
              IN \A k \in 1..Len(q) : q[k].score = GivenScore(h, KthAnswer(h, k))
        /\ (Responded("speech-analysis") /\ response'.code = 200)
           => LET h == interview_sessions[response'.sid].history
              IN response'.body.score
                    = GivenScore(h, KthAnswer(h, response'.body.answer_number))]_vars

\* C36 as stated: while a session is in the in-memory table, every Interview
\* row with its identifier has status active.
C36_CompletedOnlyAfterEnd ==
    \A id \in DOMAIN interviews :
        interviews[id].session_id \in DOMAIN interview_sessions
            => interviews[id].status = "active"

\* C37 as stated: a history-save request for a session that has been ended
\* (its identifier was handed out and is no longer in the table) is answered
\* 200 and appends exactly one entry, for that session, to interview_history.
C37_SaveAfterEndSucceeds ==
    [][(/\ Responded("history-save")
        /\ response'.sid \in IssuedIds
        /\ response'.sid \notin DOMAIN interview_sessions)
       => /\ response'.code = 200
          /\ Len(interview_history') = Len(interview_history) + 1
          /\ interview_history'[Len(interview_history')].session_id = response'.sid]_vars

\* C38 as stated: save_interview_to_user sets the owner of an interview that
\* has none, and leaves an interview owned by another user as it was.
C38_AssignOnlyWhenUnowned ==
    [][\A session_id \in SessionIds, user_id \in Users :
         (save_interview_to_user(session_id, user_id) /\ RowsOfSession(session_id) # {})
         => LET id == FirstRowOfSession(session_id)
                owner == interviews[id].user_id
            IN /\ owner = None => interviews'[id].user_id = user_id
               /\ owner \notin {None, user_id} => interviews' = interviews]_vars


Next ==
    \/ \E user \in Starters, config \in Configs : start_interview(user, config)
    \/ \E sid \in SessionIds, transcribed \in BOOLEAN, user_text \in Utterances(turns + 1) :
          analyze_audio_begin(sid, transcribed, user_text)
    \/ \E completed \in BOOLEAN, ai_response \in Replies :
          analyze_audio_chat(completed, ai_response)
    \/ analyze_audio_finish
    \/ \E sid \in SessionIds, summarised \in BOOLEAN, stored \in BOOLEAN :
          end_interview(sid, summarised, stored)
    \/ \E sid \in SessionIds, user \in Users : save_interview_to_user_history(sid, user)
    \/ \E interview_id \in 1..(interview_seq + 1), user \in Users :
          delete_user_interview(interview_id, user)
    \/ \E sid \in SessionIds : get_session_status(sid)
    \/ \E sid \in SessionIds : get_interview_time(sid)
    \/ \E sid \in SessionIds : get_detailed_analytics(sid)
    \/ \E sid \in SessionIds : export_interview_report(sid)
    \/ \E sid \in SessionIds : get_question_feedback(sid)

Spec == Init /\ [][Next]_vars

\* The state a guest's start request leaves: one session, its row, nothing else.
InitStarted ==
    /\ interview_sessions =
            [s \in {SessionSeq[1]} |-> StartSession(None, [resume_text |-> FALSE,
                                                          job_description |-> FALSE])]
    /\ issued = 1
    /\ interviews =
            [i \in {1} |-> StartRow(SessionSeq[1], None, [resume_text |-> FALSE,
                                                         job_description |-> FALSE])]
    /\ interview_seq = 1
    /\ loop = Idle
    /\ response = Reply(SessionSeq[1], None, "start", 200,
                        [opening_message |-> Opening,
                         has_resume |-> FALSE,
                         has_job_description |-> FALSE])
    /\ turns = 0
    /\ deletes = 0
    /\ interview_history = <<>>

\* One session through up to MaxScored scored turns and its end: the score
\* arithmetic on long score lists.
NextPolicy ==
    \/ \E n \in PolicyScores : analyze_audio_scored(SessionSeq[1], n)
    \/ \E summarised \in BOOLEAN, stored \in BOOLEAN :
          end_interview(SessionSeq[1], summarised, stored)

SpecPolicy == InitStarted /\ [][NextPolicy]_vars

\* One session through its turns, with the wider choice of replies.
NextTurn ==
    \/ \E transcribed \in BOOLEAN, user_text \in Utterances(turns + 1) :
          analyze_audio_begin(SessionSeq[1], transcribed, user_text)
    \/ \E completed \in BOOLEAN, ai_response \in TurnReplies :
          analyze_audio_chat(completed, ai_response)
    \/ analyze_audio_finish

SpecTurn == InitStarted /\ [][NextTurn]_vars

\* The requests that reach the Interview rows, without the turns: sessions are
\* started, ended, saved and their rows listed, read and deleted.
NextRecords ==
    \/ \E user \in Starters, config \in Configs : start_interview(user, config)
    \/ \E sid \in SessionIds, summarised \in BOOLEAN, stored \in BOOLEAN :
          end_interview(sid, summarised, stored)
    \/ \E sid \in SessionIds, user \in Users : save_interview_to_user_history(sid, user)
    \/ \E interview_id \in 1..(interview_seq + 1), user \in Users :
          delete_user_interview(interview_id, user)
    \/ \E user \in Users : get_user_interviews(user)
    \/ \E interview_id \in 1..(interview_seq + 1), user \in Users :
          get_user_interview_detail(interview_id, user)

SpecRecords == Init /\ [][NextRecords]_vars

\* A session whose client goes on with turns and reads and never asks for the
\* end.  The server serves every request it is sent, so a step that is
\* possible is taken in the end.
NextAbandoned ==
    \/ \E transcribed \in BOOLEAN, user_text \in Utterances(turns + 1) :
          analyze_audio_begin(SessionSeq[1], transcribed, user_text)
    \/ \E completed \in BOOLEAN, ai_response \in Replies :
          analyze_audio_chat(completed, ai_response)
    \/ analyze_audio_finish
    \/ get_session_status(SessionSeq[1])
    \/ get_interview_time(SessionSeq[1])

SpecAbandoned == InitStarted /\ [][NextAbandoned]_vars /\ WF_vars(NextAbandoned)

\* The reads that show a score with each answer, over the turns of one session
\* whose transcription and completion succeed.
NextFeedback ==
    \/ \E user_text \in Utterances(turns + 1) :
          analyze_audio_begin(SessionSeq[1], TRUE, user_text)
    \/ \E ai_response \in Replies : analyze_audio_chat(TRUE, ai_response)
    \/ analyze_audio_finish
    \/ export_interview_report(SessionSeq[1])
    \/ get_question_feedback(SessionSeq[1])
    \/ \E answer_index \in AnswerIndexes : analyze_speech(SessionSeq[1], answer_index)

SpecFeedback == InitStarted /\ [][NextFeedback]_vars

\* One session through its turns, its end and the saves to the local history.
NextHistory ==
    \/ \E user_text \in Utterances(turns + 1) :
          analyze_audio_begin(SessionSeq[1], TRUE, user_text)
    \/ \E ai_response \in Replies : analyze_audio_chat(TRUE, ai_response)
    \/ analyze_audio_finish
    \/ \E summarised, stored \in BOOLEAN : end_interview(SessionSeq[1], summarised, stored)
    \/ save_to_history(SessionSeq[1])

SpecHistory == InitStarted /\ [][NextHistory]_vars

\* The interviews collection under the starts and ends that fill it and the
\* ownership helper of the database module.
NextDatabase ==
    \/ \E user \in Starters, config \in Configs : start_interview(user, config)
    \/ \E sid \in SessionIds, summarised, stored \in BOOLEAN :
          end_interview(sid, summarised, stored)
    \/ \E session_id \in SessionIds, user_id \in Users :
          save_interview_to_user(session_id, user_id)

SpecDatabase == Init /\ [][NextDatabase]_vars

====
